---- MODULE Spec2Model ----
(***************************************************************************)
(* The window (pane) tree of neomutt, its reflow and its dialog stack.     *)
(*                                                                         *)
(* The repository holds two builds of the window code:                     *)
(*   "tree": src/unnamed/part_001 (mutt_window.c with struct WindowState,  *)
(*           mutt_window_set_root and the recursive window_reflow of       *)
(*           reflow.c) together with src/unnamed/part_000 (dialog.c);      *)
(*   "flat": src/mutt_window.c, whose mutt_window_reflow computes the      *)
(*           rectangles of the named windows directly from LINES and COLS. *)
(* The variable `build` says which of the two is running; it is chosen     *)
(* once, in Init, and each action belongs to one build or to both.         *)
(***************************************************************************)
EXTENDS Integers, Sequences, FiniteSets, TLC

(* ------------------------------ bounds -------------------------------- *)
MaxLines == 4       \* terminal heights 0..MaxLines
MaxCols == 2        \* terminal widths 1..MaxCols
MaxExtra == 3       \* panes the callers create besides the default ones
MaxMsgRows == 2     \* mutt_window_reflow_message_rows(0..MaxMsgRows)
MaxSidebarWidth == 1  \* C_SidebarWidth is 0..MaxSidebarWidth

(* --------------------------- program constants ------------------------ *)
MUTT_WIN_ORIENT_VERTICAL == 1
MUTT_WIN_ORIENT_HORIZONTAL == 2
MUTT_WIN_SIZE_FIXED == 1
MUTT_WIN_SIZE_MAXIMISE == 2
MUTT_WIN_SIZE_MINIMISE == 3
MUTT_WIN_SIZE_UNLIMITED == -1
NULL == 0

Max(a, b) == IF a > b THEN a ELSE b
Min(a, b) == IF a < b THEN a ELSE b
Range(s) == {s[i] : i \in 1..Len(s)}

VARIABLES
  build,              \* "tree" or "flat"
  W,                  \* the heap: W[w] is the struct MuttWindow at the live handle w
  RootWindow, MuttDialogWindow, MuttHelpWindow, MuttIndexWindow,
  MuttMessageWindow, MuttPagerBarWindow, MuttPagerWindow,
  MuttSidebarWindow, MuttStatusWindow,
  C_Help, C_StatusOnTop, C_PagerIndexLines, OptNoCurses,
  LINES, COLS, C_SidebarVisible, C_SidebarWidth, C_SidebarOnRight,
  sig,                \* SigWinch, SigInt, errno, IsEndwin and the C_Suspend setting
  redraw,             \* calls of the redraw collaborator made by the last operation
  fault,              \* the process dereferenced an absent pane and died
  last                \* the last operation, its arguments and what it released

globals == <<RootWindow, MuttDialogWindow, MuttHelpWindow, MuttIndexWindow,
             MuttMessageWindow, MuttPagerBarWindow, MuttPagerWindow,
             MuttSidebarWindow, MuttStatusWindow>>
config == <<C_Help, C_StatusOnTop, C_PagerIndexLines, OptNoCurses,
            C_SidebarVisible, C_SidebarWidth, C_SidebarOnRight>>
term == <<LINES, COLS, sig>>
vars == <<build, W, globals, config, term, redraw, fault, last>>

(* ------------------------------ the heap ------------------------------ *)
\* struct WindowState after calloc
ZeroState == [visible |-> FALSE, rows |-> 0, cols |-> 0,
              row_offset |-> 0, col_offset |-> 0]

\* struct MuttWindow after calloc
ZeroWindow == [orient |-> 0, size |-> 0, req_rows |-> 0, req_cols |-> 0,
               state |-> ZeroState, old |-> ZeroState,
               parent |-> NULL, children |-> <<>>]

NoRedraw == [full |-> 0, flow |-> 0]

\* the children lists: TAILQ of queue.h, an ordered sequence of handles
TAILQ_FIRST(head) == IF head = <<>> THEN NULL ELSE head[1]
TAILQ_LAST(head) == IF head = <<>> THEN NULL ELSE head[Len(head)]
TAILQ_INSERT_TAIL(head, elm) == Append(head, elm)
TAILQ_REMOVE(head, elm) == SelectSeq(head, LAMBDA x : x # elm)

Live == DOMAIN W

\* a handle to a released pane: reading or writing through it is undefined
Stale(w) == w # NULL /\ w \notin Live

\* the lowest handle that holds no live window: what mutt_mem_calloc returns
Fresh(Wf) ==
  CHOOSE x \in 1..(Cardinality(DOMAIN Wf) + 1) :
    /\ x \notin DOMAIN Wf
    /\ \A y \in 1..(x - 1) : y \in DOMAIN Wf

\* a live pane that is in no child sequence and is not the Root: its caller holds it
Linked(w) == \E p \in Live : w \in Range(W[p].children)
Floating == {w \in Live : ~Linked(w) /\ w # RootWindow}

RECURSIVE Subtree(_, _)
Subtree(Wf, w) ==
  {w} \cup UNION {Subtree(Wf, Wf[w].children[i]) : i \in 1..Len(Wf[w].children)}

(* mutt_window_new of the tree build *)
mutt_window_new(orient, size, rows, cols) ==
  [ZeroWindow EXCEPT !.orient = orient, !.size = size,
                     !.req_rows = rows, !.req_cols = cols,
                     !.state.visible = TRUE]

\* mutt_window_add_child that puts the child in front
mutt_window_add_child_front(Wf, parent, child) ==
  IF parent = NULL \/ child = NULL THEN Wf
  ELSE [Wf EXCEPT ![parent].children = <<child>> \o @,
                  ![child].parent = parent]

(* mutt_window_add_child(parent, child), on the heap Wf *)
mutt_window_add_child(Wf, parent, child) ==
  IF parent = NULL \/ child = NULL THEN Wf
  ELSE [Wf EXCEPT ![parent].children = TAILQ_INSERT_TAIL(@, child),
                  ![child].parent = parent]

Init ==
  /\ build \in {"tree", "flat"}
  /\ W = << >>
  /\ RootWindow = NULL /\ MuttDialogWindow = NULL /\ MuttHelpWindow = NULL
  /\ MuttIndexWindow = NULL /\ MuttMessageWindow = NULL
  /\ MuttPagerBarWindow = NULL /\ MuttPagerWindow = NULL
  /\ MuttSidebarWindow = NULL /\ MuttStatusWindow = NULL
  /\ C_PagerIndexLines = 0
  /\ OptNoCurses = FALSE
  /\ LINES = 0 /\ COLS = 0
  /\ sig = [SigWinch |-> 0, SigInt |-> 0, errno |-> 0, IsEndwin |-> 0,
            C_Suspend |-> TRUE]
  \* the flat build starts with the user's settings; the tree build starts
  \* with the defaults, changes them while it runs and has no sidebar pane
  /\ IF build = "flat"
     THEN /\ C_Help \in BOOLEAN /\ C_StatusOnTop \in BOOLEAN
          /\ C_SidebarVisible \in BOOLEAN
          /\ C_SidebarWidth \in 0..MaxSidebarWidth
          /\ C_SidebarOnRight \in BOOLEAN
     ELSE /\ C_Help = TRUE /\ C_StatusOnTop = FALSE
          /\ C_SidebarVisible = FALSE /\ C_SidebarWidth = 0
          /\ C_SidebarOnRight = FALSE
  /\ redraw = NoRedraw
  /\ fault = FALSE
  /\ last = [op |-> "start"]

\* mutt_window_init that links the Message window first
mutt_window_init_message_first(Wf) ==
  LET h1 == Fresh(Wf)
      W1 == (h1 :> mutt_window_new(MUTT_WIN_ORIENT_VERTICAL,
                                   MUTT_WIN_SIZE_FIXED, 0, 0)) @@ Wf
      h2 == Fresh(W1)
      W2 == (h2 :> mutt_window_new(MUTT_WIN_ORIENT_VERTICAL, MUTT_WIN_SIZE_FIXED,
                                   1, MUTT_WIN_SIZE_UNLIMITED)) @@ W1
      h3 == Fresh(W2)
      W3 == (h3 :> mutt_window_new(MUTT_WIN_ORIENT_VERTICAL, MUTT_WIN_SIZE_MAXIMISE,
                                   MUTT_WIN_SIZE_UNLIMITED,
                                   MUTT_WIN_SIZE_UNLIMITED)) @@ W2
      h4 == Fresh(W3)
      W4 == (h4 :> mutt_window_new(MUTT_WIN_ORIENT_VERTICAL, MUTT_WIN_SIZE_FIXED,
                                   1, MUTT_WIN_SIZE_UNLIMITED)) @@ W3
  IN  [W |-> mutt_window_add_child(
               mutt_window_add_child(
                 mutt_window_add_child(W4, h1, h4), h1, h2), h1, h3),
       root |-> h1, help |-> h2, dialog |-> h3, message |-> h4]

(* mutt_window_init of the tree build, on a heap without a Root: the heap and
   the handles of the four windows *)
mutt_window_init(Wf) ==
  LET h1 == Fresh(Wf)
      W1 == (h1 :> mutt_window_new(MUTT_WIN_ORIENT_VERTICAL,
                                   MUTT_WIN_SIZE_FIXED, 0, 0)) @@ Wf
      h2 == Fresh(W1)
      W2 == (h2 :> mutt_window_new(MUTT_WIN_ORIENT_VERTICAL, MUTT_WIN_SIZE_FIXED,
                                   1, MUTT_WIN_SIZE_UNLIMITED)) @@ W1
      h3 == Fresh(W2)
      W3 == (h3 :> mutt_window_new(MUTT_WIN_ORIENT_VERTICAL, MUTT_WIN_SIZE_MAXIMISE,
                                   MUTT_WIN_SIZE_UNLIMITED,
                                   MUTT_WIN_SIZE_UNLIMITED)) @@ W2
      h4 == Fresh(W3)
      W4 == (h4 :> mutt_window_new(MUTT_WIN_ORIENT_VERTICAL, MUTT_WIN_SIZE_FIXED,
                                   1, MUTT_WIN_SIZE_UNLIMITED)) @@ W3
  IN  [W |-> mutt_window_add_child(
               mutt_window_add_child(
                 mutt_window_add_child(W4, h1, h2), h1, h3), h1, h4),
       root |-> h1, help |-> h2, dialog |-> h3, message |-> h4]

WindowInit ==
  /\ build = "tree" /\ ~fault
  /\ last' = [op |-> "mutt_window_init", had_root |-> RootWindow # NULL]
  /\ redraw' = NoRedraw
  /\ UNCHANGED <<build, config, term, fault>>
  /\ IF RootWindow # NULL
     THEN UNCHANGED <<W, globals>>
     ELSE LET R == mutt_window_init(W)
          IN  /\ W' = R.W
              /\ RootWindow' = R.root
              /\ MuttHelpWindow' = R.help
              /\ MuttDialogWindow' = R.dialog
              /\ MuttMessageWindow' = R.message
              /\ UNCHANGED <<MuttIndexWindow, MuttPagerBarWindow, MuttPagerWindow,
                             MuttSidebarWindow, MuttStatusWindow>>

\* the heap as the free functions thread it: the windows, the blocks passed
\* to FREE so far (in order, each with the child sequence it had then) and the
\* caller's handle
Heap == [W |-> W, freed |-> <<>>, ptr |-> NULL]

(* FREE(ptr) of mutt/memory.h: the block of w is released *)
FREE(H, w) ==
  [H EXCEPT !.W = [x \in DOMAIN H.W \ {w} |-> H.W[x]],
            !.freed = Append(@, [win |-> w, children |-> H.W[w].children])]

(* mutt_winlist_free(&w->children): frees every pane below w *)
RECURSIVE mutt_winlist_free(_, _)
mutt_winlist_free(H, w) ==
  IF H.W[w].children = <<>> THEN H
  ELSE LET np == TAILQ_FIRST(H.W[w].children)
           H1 == [H EXCEPT !.W[w].children = TAILQ_REMOVE(@, np)]
           H2 == mutt_winlist_free(H1, np)
       IN  mutt_winlist_free(FREE(H2, np), w)

\* mutt_window_free that leaves the children of win alone
mutt_window_free_shallow(H, has_ptr, win) ==
  IF ~has_ptr \/ win = NULL THEN [H EXCEPT !.ptr = win]
  ELSE [FREE(H, win) EXCEPT !.ptr = NULL]

(* mutt_window_free(ptr): has_ptr is FALSE for a null ptr, win is *ptr.
   The result carries the heap and the caller's handle *ptr afterwards. *)
mutt_window_free(H, has_ptr, win) ==
  IF ~has_ptr \/ win = NULL THEN [H EXCEPT !.ptr = win]
  ELSE [FREE(mutt_winlist_free(H, win), win) EXCEPT !.ptr = NULL]

\* shapes of the panes callers create: a dialog's root fills the container,
\* a bar inside a dialog is one fixed row
DialogShape == <<MUTT_WIN_ORIENT_VERTICAL, MUTT_WIN_SIZE_MAXIMISE,
                 MUTT_WIN_SIZE_UNLIMITED, MUTT_WIN_SIZE_UNLIMITED>>
BarShape == <<MUTT_WIN_ORIENT_VERTICAL, MUTT_WIN_SIZE_FIXED, 1, MUTT_WIN_SIZE_UNLIMITED>>

\* the panes a caller made: every live pane but the ones mutt_window_init made
Extra == Live \ {RootWindow, MuttHelpWindow, MuttDialogWindow, MuttMessageWindow}

(* a caller creates a pane with mutt_window_new and keeps the handle *)
NewWindow(shape) ==
  /\ build = "tree" /\ ~fault
  /\ Cardinality(Extra) < MaxExtra
  /\ LET h == Fresh(W)
     IN  /\ W' = (h :> mutt_window_new(shape[1], shape[2], shape[3], shape[4])) @@ W
         /\ last' = [op |-> "mutt_window_new", win |-> h]
  /\ redraw' = NoRedraw
  /\ UNCHANGED <<build, globals, config, term, fault>>

(* a call of mutt_window_add_child: callers hand in a pane they hold, never
   one that is already linked or that contains the parent *)
AddChild(parent, child) ==
  /\ ~fault
  /\ parent \in Live \cup {NULL}
  /\ child \in Floating \cup {NULL}
  /\ child # NULL /\ parent # NULL => parent \notin Subtree(W, child)
  /\ W' = mutt_window_add_child(W, parent, child)
  /\ last' = [op |-> "mutt_window_add_child", parent |-> parent, child |-> child]
  /\ redraw' = NoRedraw
  /\ UNCHANGED <<build, globals, config, term, fault>>

(* a caller frees a pane it holds: mutt_window_free(&handle) *)
FreeWindow(has_ptr, win) ==
  /\ ~fault
  /\ win \in Floating \cup {NULL}
  /\ LET H == mutt_window_free(Heap, has_ptr, win)
     IN  /\ W' = H.W
         /\ last' = [op |-> "mutt_window_free", has_ptr |-> has_ptr, win |-> win,
                     ptr |-> H.ptr, freed |-> H.freed]
  /\ redraw' = NoRedraw
  /\ UNCHANGED <<build, globals, config, term, fault>>

(* mutt_window_free_all *)
mutt_window_free_all ==
  /\ ~fault
  /\ LET H == mutt_window_free(Heap, TRUE, RootWindow)
     IN  /\ W' = H.W
         /\ RootWindow' = H.ptr
         /\ last' = [op |-> "mutt_window_free_all", win |-> RootWindow,
                     freed |-> H.freed]
  /\ MuttHelpWindow' = NULL
  /\ MuttIndexWindow' = NULL
  /\ MuttMessageWindow' = NULL
  /\ MuttPagerBarWindow' = NULL
  /\ MuttPagerWindow' = NULL
  /\ MuttSidebarWindow' = NULL
  /\ MuttStatusWindow' = NULL
  /\ redraw' = NoRedraw
  /\ UNCHANGED <<build, MuttDialogWindow, config, term, fault>>

(* ---------------------------- the dialog stack ------------------------- *)
\* what a call leaves behind: the heap, whether the process died in it, and
\* the redraws it marked
Ok(Wf) == [W |-> Wf, fault |-> FALSE, redraw |-> NoRedraw]
Died(Wf) == [W |-> Wf, fault |-> TRUE, redraw |-> NoRedraw]

\* struct Dialog: a caller's dialog is its root pane, one the caller holds, or none
DialogRoots == Floating \cup {NULL}

\* dialog_push that forgets to hide the dialog below the new one
dialog_push_nohide(Wf, cont, has_dlg, root) ==
  IF ~has_dlg \/ cont = NULL \/ cont \notin DOMAIN Wf THEN {Ok(Wf)}
  ELSE IF root = NULL THEN {Died(Wf)}
  ELSE {Ok([Wf EXCEPT ![cont].children = TAILQ_INSERT_TAIL(@, root),
                      ![root].state.visible = TRUE])}

\* dialog_push without the test of dlg
dialog_push_nocheck(Wf, cont, has_dlg, root) ==
  IF cont = NULL \/ cont \notin DOMAIN Wf THEN {Ok(Wf)}
  ELSE IF root = NULL THEN {Died(Wf)}
  ELSE LET lastw == TAILQ_LAST(Wf[cont].children)
           W1 == IF lastw # NULL
                 THEN [Wf EXCEPT ![lastw].state.visible = FALSE]
                 ELSE Wf
       IN  {Ok([W1 EXCEPT ![cont].children = TAILQ_INSERT_TAIL(@, root),
                          ![root].state.visible = TRUE])}

(* dialog_push(dlg) with MuttDialogWindow = cont: has_dlg is FALSE for a null
   dlg, root is dlg->root. The set of possible outcomes. *)
dialog_push(Wf, cont, has_dlg, root) ==
  IF ~has_dlg \/ cont = NULL THEN {Ok(Wf)}
  ELSE IF cont \notin DOMAIN Wf
  THEN \* the container was released: the process dies, or the writes land in
       \* the released block and in dlg->root
       {Died(Wf)} \cup
       (IF root = NULL THEN {} ELSE {Ok([Wf EXCEPT ![root].state.visible = TRUE])})
  ELSE LET lastw == TAILQ_LAST(Wf[cont].children)
           W1 == IF lastw # NULL
                 THEN [Wf EXCEPT ![lastw].state.visible = FALSE]
                 ELSE Wf
       IN  IF root = NULL
           THEN \* TAILQ_INSERT_TAIL writes through dlg->root
                {Died(W1)}
           ELSE {Ok([W1 EXCEPT ![cont].children = TAILQ_INSERT_TAIL(@, root),
                               ![root].state.visible = TRUE])}

DialogPush(has_dlg, root) ==
  /\ build = "tree" /\ ~fault
  /\ root \in DialogRoots
  /\ last' = [op |-> "dialog_push", has_dlg |-> has_dlg, root |-> root]
  /\ redraw' = NoRedraw
  /\ UNCHANGED <<build, globals, config, term>>
  /\ \E R \in dialog_push(W, MuttDialogWindow, has_dlg, root) :
       W' = R.W /\ fault' = R.fault

\* dialog_pop that takes the oldest dialog off instead of the newest
dialog_pop_first(Wf, cont) ==
  IF cont = NULL \/ cont \notin DOMAIN Wf THEN {Ok(Wf)}
  ELSE LET firstw == TAILQ_FIRST(Wf[cont].children)
       IN  IF firstw = NULL THEN {Ok(Wf)}
           ELSE LET W1 == [Wf EXCEPT ![firstw].state.visible = FALSE,
                                     ![cont].children = TAILQ_REMOVE(@, firstw)]
                    last2 == TAILQ_LAST(W1[cont].children)
                IN  {Ok(IF last2 # NULL
                        THEN [W1 EXCEPT ![last2].state.visible = TRUE]
                        ELSE W1)}

\* dialog_pop that also frees the dialog it takes off
dialog_pop_free(Wf, cont) ==
  IF cont = NULL \/ cont \notin DOMAIN Wf THEN {Ok(Wf)}
  ELSE LET lastw == TAILQ_LAST(Wf[cont].children)
       IN  IF lastw = NULL THEN {Ok(Wf)}
           ELSE LET W1 == [Wf EXCEPT ![cont].children = TAILQ_REMOVE(@, lastw)]
                    W2 == mutt_window_free([W |-> W1, freed |-> <<>>, ptr |-> NULL],
                                           TRUE, lastw).W
                    last2 == TAILQ_LAST(W2[cont].children)
                IN  {Ok(IF last2 # NULL
                        THEN [W2 EXCEPT ![last2].state.visible = TRUE]
                        ELSE W2)}

(* dialog_pop() with MuttDialogWindow = cont. The set of possible outcomes. *)
dialog_pop(Wf, cont) ==
  IF cont = NULL THEN {Ok(Wf)}
  ELSE IF cont \notin DOMAIN Wf
  THEN \* the container was released: the process dies, or it reads an empty
       \* list out of the released block
       {Died(Wf), Ok(Wf)}
  ELSE LET lastw == TAILQ_LAST(Wf[cont].children)
       IN  IF lastw = NULL THEN {Ok(Wf)}
           ELSE LET W1 == [Wf EXCEPT ![lastw].state.visible = FALSE,
                                     ![cont].children = TAILQ_REMOVE(@, lastw)]
                    last2 == TAILQ_LAST(W1[cont].children)
                IN  {Ok(IF last2 # NULL
                        THEN [W1 EXCEPT ![last2].state.visible = TRUE]
                        ELSE W1)}

DialogPop ==
  /\ build = "tree" /\ ~fault
  /\ last' = [op |-> "dialog_pop",
              popped |-> IF MuttDialogWindow \in Live
                         THEN TAILQ_LAST(W[MuttDialogWindow].children)
                         ELSE NULL]
  /\ redraw' = NoRedraw
  /\ UNCHANGED <<build, globals, config, term>>
  /\ \E R \in dialog_pop(W, MuttDialogWindow) :
       W' = R.W /\ fault' = R.fault

(* ------------------------------- reflow -------------------------------- *)
\* a Vertical pane stacks its children top to bottom: the stacking axis is rows
Vertical(Wf, p) == Wf[p].orient = MUTT_WIN_ORIENT_VERTICAL
Request(Wf, c, vert) == IF vert THEN Wf[c].req_rows ELSE Wf[c].req_cols
VisibleKids(Wf, p) == SelectSeq(Wf[p].children, LAMBDA c : Wf[c].state.visible)

RECURSIVE SumSeq(_)
SumSeq(s) == IF s = <<>> THEN 0 ELSE Head(s) + SumSeq(Tail(s))

RECURSIVE MaxSeq(_)
MaxSeq(s) == IF s = <<>> THEN 0 ELSE Max(Head(s), MaxSeq(Tail(s)))

\* Natural that gives a Minimise pane nothing, as if it were a Maximise pane
Natural_none(Wf, c, vert) ==
  IF Wf[c].size = MUTT_WIN_SIZE_FIXED
  THEN IF Request(Wf, c, vert) = MUTT_WIN_SIZE_UNLIMITED THEN 0
       ELSE Max(Request(Wf, c, vert), 0)
  ELSE 0

\* the extent pane c needs along an axis (vert: rows), derived bottom-up: a
\* Fixed pane its request, a Minimise pane what its visible children need, a
\* Maximise pane nothing
RECURSIVE Natural(_, _, _)
Natural(Wf, c, vert) ==
  IF Wf[c].size = MUTT_WIN_SIZE_FIXED
  THEN IF Request(Wf, c, vert) = MUTT_WIN_SIZE_UNLIMITED THEN 0
       ELSE Max(Request(Wf, c, vert), 0)
  ELSE IF Wf[c].size = MUTT_WIN_SIZE_MINIMISE
  THEN LET vis == VisibleKids(Wf, c)
           needs == [i \in 1..Len(vis) |-> Natural(Wf, vis[i], vert)]
       IN  IF Vertical(Wf, c) = vert THEN SumSeq(needs) ELSE MaxSeq(needs)
  ELSE 0

\* the extents of the Fixed and Minimise panes of vis, in order, out of `space`;
\* a Maximise pane is left at 0 here
RECURSIVE FixedExtents(_, _, _, _)
FixedExtents(Wf, vis, vert, space) ==
  IF vis = <<>> THEN <<>>
  ELSE LET c == Head(vis)
           e == IF Wf[c].size = MUTT_WIN_SIZE_FIXED
                THEN IF Request(Wf, c, vert) = MUTT_WIN_SIZE_UNLIMITED
                     THEN Max(space, 0)
                     ELSE Max(Request(Wf, c, vert), 0)
                ELSE IF Wf[c].size = MUTT_WIN_SIZE_MINIMISE
                THEN Natural(Wf, c, vert)
                ELSE 0
       IN  <<e>> \o FixedExtents(Wf, Tail(vis), vert, space - e)

\* the stacking-axis extents of the visible children vis of a pane that offers
\* `avail`: the Maximise panes share what the others leave, never less than 0,
\* the earlier ones taking the remainder of the division
Extents(Wf, vis, vert, avail) ==
  LET fixed == FixedExtents(Wf, vis, vert, avail)
      rest == Max(avail - SumSeq(fixed), 0)
      maxi == SelectSeq(vis, LAMBDA c : Wf[c].size = MUTT_WIN_SIZE_MAXIMISE)
      k == Len(maxi)
      Rank(i) == Cardinality({j \in 1..(i - 1) : Wf[vis[j]].size = MUTT_WIN_SIZE_MAXIMISE})
  IN  [i \in 1..Len(vis) |->
         IF Wf[vis[i]].size = MUTT_WIN_SIZE_MAXIMISE
         THEN (rest \div k) + (IF Rank(i) < rest % k THEN 1 ELSE 0)
         ELSE fixed[i]]

\* the rectangle of the i-th visible child of p
Place(Wf, p, vis, ext, i) ==
  LET before == SumSeq(SubSeq(ext, 1, i - 1))
      g == Wf[p].state
  IN  IF Vertical(Wf, p)
      THEN [visible |-> TRUE, rows |-> ext[i], cols |-> g.cols,
            row_offset |-> g.row_offset + before, col_offset |-> g.col_offset]
      ELSE [visible |-> TRUE, rows |-> g.rows, cols |-> ext[i],
            row_offset |-> g.row_offset, col_offset |-> g.col_offset + before]

Index(seq, x) == CHOOSE i \in 1..Len(seq) : seq[i] = x

\* every child of p keeps its former state in `old`; the visible ones are placed
RECURSIVE PlaceKids(_, _, _, _, _)
PlaceKids(Wf, p, kids, vis, ext) ==
  IF kids = <<>> THEN Wf
  ELSE LET c == Head(kids)
           W1 == IF c \in Range(vis)
                 THEN [Wf EXCEPT ![c].old = Wf[c].state,
                                 ![c].state = Place(Wf, p, vis, ext, Index(vis, c))]
                 ELSE [Wf EXCEPT ![c].old = Wf[c].state]
       IN  PlaceKids(W1, p, Tail(kids), vis, ext)

(* window_reflow(win) of reflow.c: lays out the children of p inside p's
   rectangle, keeps each child's former state in `old`, and recurses into the
   visible children *)
RECURSIVE window_reflow(_, _)
RECURSIVE ReflowEach(_, _)
window_reflow(Wf, p) ==
  LET vis == VisibleKids(Wf, p)
      vert == Vertical(Wf, p)
      avail == IF vert THEN Wf[p].state.rows ELSE Wf[p].state.cols
      ext == Extents(Wf, vis, vert, avail)
  IN  ReflowEach(PlaceKids(Wf, p, Wf[p].children, vis, ext), vis)

ReflowEach(Wf, s) ==
  IF s = <<>> THEN Wf ELSE ReflowEach(window_reflow(Wf, Head(s)), Tail(s))

\* the first child of parent goes to the end of parent's children
RotateFirst(Wf, parent) ==
  LET first == TAILQ_FIRST(Wf[parent].children)
  IN  [Wf EXCEPT ![parent].children = TAILQ_INSERT_TAIL(TAILQ_REMOVE(@, first), first)]

\* lines 301-307, 315-321, 326-332: win is first exactly when C_StatusOnTop is off
SwapFor(Wf, win) ==
  LET parent == Wf[win].parent
      first == TAILQ_FIRST(Wf[parent].children)
  IN  IF (C_StatusOnTop /\ first = win) \/ (~C_StatusOnTop /\ first # win)
      THEN RotateFirst(Wf, parent)
      ELSE Wf

\* mutt_window_reflow_prep that leaves the Help window's visibility alone
mutt_window_reflow_prep_nohelp(Wf) ==
  IF MuttHelpWindow \notin DOMAIN Wf THEN Died(Wf)
  ELSE IF Wf[MuttHelpWindow].parent \notin DOMAIN Wf THEN Died(Wf)
  ELSE Ok(SwapFor(Wf, MuttHelpWindow))

(* mutt_window_reflow_prep *)
mutt_window_reflow_prep(Wf) ==
  IF MuttHelpWindow \notin DOMAIN Wf THEN Died(Wf)
  ELSE LET W1 == [Wf EXCEPT ![MuttHelpWindow].state.visible = C_Help]
       IN  IF W1[MuttHelpWindow].parent \notin DOMAIN W1 THEN Died(W1)
           ELSE LET W2 == SwapFor(W1, MuttHelpWindow)
                IN  IF MuttIndexWindow = NULL \/ MuttPagerWindow = NULL THEN Ok(W2)
                    ELSE IF \/ MuttIndexWindow \notin DOMAIN W2
                            \/ MuttPagerWindow \notin DOMAIN W2
                            \/ W2[MuttIndexWindow].parent \notin DOMAIN W2
                            \/ W2[MuttPagerWindow].parent \notin DOMAIN W2
                    THEN Died(W2)
                    ELSE LET W3 == SwapFor(SwapFor(W2, MuttIndexWindow), MuttPagerWindow)
                             ip == W3[MuttIndexWindow].parent
                             pp == W3[MuttPagerWindow].parent
                         IN  IF W3[pp].state.visible
                             THEN Ok([W3 EXCEPT
                                   ![MuttIndexWindow].req_rows = C_PagerIndexLines,
                                   ![MuttIndexWindow].size = MUTT_WIN_SIZE_FIXED,
                                   ![ip].size = MUTT_WIN_SIZE_MINIMISE,
                                   ![ip].state.visible = (C_PagerIndexLines # 0)])
                             ELSE Ok([W3 EXCEPT
                                   ![MuttIndexWindow].req_rows = MUTT_WIN_SIZE_UNLIMITED,
                                   ![MuttIndexWindow].size = MUTT_WIN_SIZE_MAXIMISE,
                                   ![ip].size = MUTT_WIN_SIZE_MAXIMISE,
                                   ![ip].state.visible = TRUE])

\* mutt_window_reflow that does not look at OptNoCurses
mutt_window_reflow_curses(Wf, win) ==
  LET P == mutt_window_reflow_prep(Wf)
      target == IF win # NULL THEN win ELSE RootWindow
  IN  IF P.fault THEN P
      ELSE IF target \notin DOMAIN P.W THEN Died(P.W)
      ELSE [Ok(window_reflow(P.W, target)) EXCEPT
              !.redraw = [full |-> 1, flow |-> 1]]

(* mutt_window_reflow(win) of the tree build *)
mutt_window_reflow(Wf, win) ==
  IF OptNoCurses THEN Ok(Wf)
  ELSE LET P == mutt_window_reflow_prep(Wf)
           target == IF win # NULL THEN win ELSE RootWindow
       IN  IF P.fault THEN P
           ELSE IF target \notin DOMAIN P.W THEN Died(P.W)
           ELSE [Ok(window_reflow(P.W, target)) EXCEPT
                   !.redraw = [full |-> 1, flow |-> 1]]

(* mutt_window_reflow_message_rows(mw_rows) of the tree build *)
mutt_window_reflow_message_rows(Wf, mw_rows) ==
  IF MuttMessageWindow \notin DOMAIN Wf THEN Died(Wf)
  ELSE LET W1 == [Wf EXCEPT ![MuttMessageWindow].req_rows = mw_rows]
           R == mutt_window_reflow(W1, W1[MuttMessageWindow].parent)
       IN  IF R.fault THEN R
           ELSE [R EXCEPT !.redraw.full = @ + 1]

\* mutt_window_set_root that reflows whether or not the size changed
mutt_window_set_root_always(Wf, rows, cols) ==
  IF RootWindow = NULL THEN Ok(Wf)
  ELSE IF RootWindow \notin DOMAIN Wf THEN Died(Wf)
  ELSE mutt_window_reflow([Wf EXCEPT ![RootWindow].state.rows = rows,
                                     ![RootWindow].state.cols = cols],
                          RootWindow)

\* mutt_window_set_root that reflows before it stores the new size
mutt_window_set_root_late(Wf, rows, cols) ==
  IF RootWindow = NULL THEN Ok(Wf)
  ELSE IF RootWindow \notin DOMAIN Wf THEN Died(Wf)
  ELSE LET changed == Wf[RootWindow].state.rows # rows \/ Wf[RootWindow].state.cols # cols
           R == IF changed THEN mutt_window_reflow(Wf, RootWindow) ELSE Ok(Wf)
       IN  [R EXCEPT !.W[RootWindow].state.rows = rows,
                     !.W[RootWindow].state.cols = cols]

(* mutt_window_set_root(rows, cols) *)
mutt_window_set_root(Wf, rows, cols) ==
  IF RootWindow = NULL THEN Ok(Wf)
  ELSE IF RootWindow \notin DOMAIN Wf THEN Died(Wf)
  ELSE LET changed == Wf[RootWindow].state.rows # rows \/ Wf[RootWindow].state.cols # cols
           W1 == [Wf EXCEPT ![RootWindow].state.rows = rows,
                            ![RootWindow].state.cols = cols]
       IN  IF changed THEN mutt_window_reflow(W1, RootWindow) ELSE Ok(W1)

(* mutt_window_copy_size(win_src, win_dst) *)
mutt_window_copy_size(Wf, win_src, win_dst) ==
  IF win_src = NULL \/ win_dst = NULL THEN Wf
  ELSE [Wf EXCEPT ![win_dst].state.rows = Wf[win_src].state.rows,
                  ![win_dst].state.cols = Wf[win_src].state.cols,
                  ![win_dst].state.row_offset = Wf[win_src].state.row_offset,
                  ![win_dst].state.col_offset = Wf[win_src].state.col_offset]

(* mutt_window_move(win, row, col): reads win's offsets for curses' move() *)
mutt_window_move(Wf, win) ==
  IF win \notin DOMAIN Wf THEN Died(Wf) ELSE Ok(Wf)

\* an operation of the tree build that ends in outcome R
Returns(R) ==
  /\ W' = R.W /\ fault' = R.fault /\ redraw' = R.redraw
  /\ UNCHANGED <<build, globals, config, term>>

Reflow(win) ==
  /\ build = "tree" /\ ~fault
  /\ win \in {NULL, RootWindow, MuttDialogWindow}
  /\ last' = [op |-> "mutt_window_reflow", win |-> win]
  /\ Returns(mutt_window_reflow(W, win))

ReflowMessageRows(mw_rows) ==
  /\ build = "tree" /\ ~fault
  /\ last' = [op |-> "mutt_window_reflow_message_rows", mw_rows |-> mw_rows]
  /\ Returns(mutt_window_reflow_message_rows(W, mw_rows))

SetRoot(rows, cols) ==
  /\ build = "tree" /\ ~fault
  /\ last' = [op |-> "mutt_window_set_root", rows |-> rows, cols |-> cols,
              resized |-> /\ RootWindow \in Live
                          /\ \/ W[RootWindow].state.rows # rows
                             \/ W[RootWindow].state.cols # cols]
  /\ Returns(mutt_window_set_root(W, rows, cols))

CopySize(win_src, win_dst) ==
  /\ ~fault
  /\ win_src \in Live \cup {NULL} /\ win_dst \in Live \cup {NULL}
  /\ last' = [op |-> "mutt_window_copy_size", src |-> win_src, dst |-> win_dst]
  /\ Returns(Ok(mutt_window_copy_size(W, win_src, win_dst)))

Move(win) ==
  /\ ~fault
  /\ win \in Live \cup {NULL}
  /\ last' = [op |-> "mutt_window_move", win |-> win]
  /\ Returns(mutt_window_move(W, win))

\* the configuration system sets C_Help, C_StatusOnTop; main() sets OptNoCurses
SetHelp(b) ==
  /\ build = "tree" /\ ~fault /\ C_Help # b /\ C_Help' = b
  /\ last' = [op |-> "set C_Help"]
  /\ redraw' = NoRedraw
  /\ UNCHANGED <<build, W, globals, C_StatusOnTop, C_PagerIndexLines, OptNoCurses,
                 C_SidebarVisible, C_SidebarWidth, C_SidebarOnRight, term, fault>>

SetStatusOnTop(b) ==
  /\ build = "tree" /\ ~fault /\ C_StatusOnTop # b /\ C_StatusOnTop' = b
  /\ last' = [op |-> "set C_StatusOnTop"]
  /\ redraw' = NoRedraw
  /\ UNCHANGED <<build, W, globals, C_Help, C_PagerIndexLines, OptNoCurses,
                 C_SidebarVisible, C_SidebarWidth, C_SidebarOnRight, term, fault>>

SetNoCurses(b) ==
  /\ ~fault /\ OptNoCurses # b /\ OptNoCurses' = b
  /\ last' = [op |-> "set OptNoCurses"]
  /\ redraw' = NoRedraw
  /\ UNCHANGED <<build, W, globals, C_Help, C_StatusOnTop, C_PagerIndexLines,
                 C_SidebarVisible, C_SidebarWidth, C_SidebarOnRight, term, fault>>

TermRows == 0..MaxLines
TermCols == 1..MaxCols

(* ---------------------------- the flat build --------------------------- *)
\* src/mutt_window.c keeps rows, cols and the offsets in the window itself
\* (here: in state) and computes the five standard windows from LINES and COLS

(* mutt_window_new of the flat build: calloc leaves visible unset *)
mutt_window_new_flat(orient, size, rows, cols) ==
  [ZeroWindow EXCEPT !.orient = orient, !.size = size,
                     !.state.rows = rows, !.state.cols = cols]

\* the windows mutt_window_init creates, in its order: w1..w6, Help, Index,
\* Message, PagerBar, Pager, Sidebar, Status
FlatShapes ==
  LET maxi(o) == <<o, MUTT_WIN_SIZE_MAXIMISE, MUTT_WIN_SIZE_UNLIMITED, MUTT_WIN_SIZE_UNLIMITED>>
      bar == <<MUTT_WIN_ORIENT_VERTICAL, MUTT_WIN_SIZE_FIXED, 1, MUTT_WIN_SIZE_UNLIMITED>>
  IN  << maxi(MUTT_WIN_ORIENT_VERTICAL), maxi(MUTT_WIN_ORIENT_VERTICAL),
         maxi(MUTT_WIN_ORIENT_HORIZONTAL), maxi(MUTT_WIN_ORIENT_VERTICAL),
         maxi(MUTT_WIN_ORIENT_VERTICAL), maxi(MUTT_WIN_ORIENT_VERTICAL),
         bar, maxi(MUTT_WIN_ORIENT_VERTICAL), bar, bar,
         maxi(MUTT_WIN_ORIENT_VERTICAL),
         <<MUTT_WIN_ORIENT_HORIZONTAL, MUTT_WIN_SIZE_FIXED, MUTT_WIN_SIZE_UNLIMITED, 20>>,
         bar >>

\* the mutt_window_add_child calls of mutt_window_init, as positions in FlatShapes
FlatLinks == << <<1, 2>>, <<1, 9>>, <<2, 7>>, <<2, 3>>, <<3, 12>>, <<3, 4>>,
                <<4, 5>>, <<5, 8>>, <<5, 13>>, <<4, 6>>, <<6, 11>>, <<6, 10>> >>

\* the handles of n windows allocated one after the other on Wf
RECURSIVE Alloc(_, _, _)
Alloc(Wf, shapes, hs) ==
  IF shapes = <<>> THEN [W |-> Wf, hs |-> hs]
  ELSE LET h == Fresh(Wf)
           sh == Head(shapes)
       IN  Alloc((h :> mutt_window_new_flat(sh[1], sh[2], sh[3], sh[4])) @@ Wf,
                 Tail(shapes), Append(hs, h))

RECURSIVE LinkAll(_, _, _)
LinkAll(Wf, hs, links) ==
  IF links = <<>> THEN Wf
  ELSE LinkAll(mutt_window_add_child(Wf, hs[Head(links)[1]], hs[Head(links)[2]]),
               hs, Tail(links))

(* mutt_window_init of the flat build, on a heap without a Root *)
mutt_window_init_flat(Wf) ==
  LET A == Alloc(Wf, FlatShapes, <<>>)
  IN  [W |-> LinkAll(A.W, A.hs, FlatLinks), hs |-> A.hs]

FlatInit ==
  /\ build = "flat" /\ ~fault
  /\ last' = [op |-> "mutt_window_init", had_root |-> RootWindow # NULL]
  /\ redraw' = NoRedraw
  /\ UNCHANGED <<build, config, term, fault, MuttDialogWindow>>
  /\ IF RootWindow # NULL
     THEN UNCHANGED <<W, RootWindow, MuttHelpWindow, MuttIndexWindow,
                      MuttMessageWindow, MuttPagerBarWindow, MuttPagerWindow,
                      MuttSidebarWindow, MuttStatusWindow>>
     ELSE LET R == mutt_window_init_flat(W)
          IN  /\ W' = [R.W EXCEPT ![R.hs[6]].state.visible = FALSE]
              /\ RootWindow' = R.hs[1]
              /\ MuttHelpWindow' = R.hs[7]
              /\ MuttIndexWindow' = R.hs[8]
              /\ MuttMessageWindow' = R.hs[9]
              /\ MuttPagerBarWindow' = R.hs[10]
              /\ MuttPagerWindow' = R.hs[11]
              /\ MuttSidebarWindow' = R.hs[12]
              /\ MuttStatusWindow' = R.hs[13]

\* the sidebar part of mutt_window_reflow (USE_SIDEBAR)
ReflowSidebar(Wf) ==
  LET W1 == [mutt_window_copy_size(Wf, MuttIndexWindow, MuttSidebarWindow)
               EXCEPT ![MuttSidebarWindow].state.cols = C_SidebarWidth,
                      ![MuttIndexWindow].state.cols = @ - C_SidebarWidth]
  IN  IF C_SidebarOnRight
      THEN [W1 EXCEPT ![MuttSidebarWindow].state.col_offset = COLS - C_SidebarWidth]
      ELSE [W1 EXCEPT ![MuttIndexWindow].state.col_offset = @ + C_SidebarWidth]

\* lines 325-337: the Status, Help and Message windows
FlatBars(Wf) ==
  LET W1 == [Wf EXCEPT
               ![MuttStatusWindow].state.rows = 1,
               ![MuttStatusWindow].state.cols = COLS,
               ![MuttStatusWindow].state.row_offset =
                   IF C_StatusOnTop THEN 0 ELSE LINES - 2,
               ![MuttStatusWindow].state.col_offset = 0]
      W2 == mutt_window_copy_size(W1, MuttStatusWindow, MuttHelpWindow)
      W3 == IF C_Help
            THEN [W2 EXCEPT ![MuttHelpWindow].state.row_offset =
                                IF C_StatusOnTop THEN LINES - 2 ELSE 0]
            ELSE [W2 EXCEPT ![MuttHelpWindow].state.rows = 0]
  IN  [mutt_window_copy_size(W3, MuttStatusWindow, MuttMessageWindow)
         EXCEPT ![MuttMessageWindow].state.row_offset = LINES - 1]

\* lines 339-360: the Index window, given its rows, and the Sidebar
FlatIndex(Wf, rows) ==
  LET W5 == mutt_window_copy_size(Wf, MuttStatusWindow, MuttIndexWindow)
      W6 == [W5 EXCEPT
              ![MuttIndexWindow].state.rows = rows,
              ![MuttIndexWindow].state.row_offset =
                  IF C_StatusOnTop THEN W5[MuttStatusWindow].state.rows
                                   ELSE W5[MuttHelpWindow].state.rows]
  IN  IF C_SidebarVisible THEN ReflowSidebar(W6) ELSE W6

\* the windows mutt_window_reflow writes to
FlatUsed == {MuttStatusWindow, MuttHelpWindow, MuttMessageWindow, MuttIndexWindow}
              \cup (IF C_SidebarVisible THEN {MuttSidebarWindow} ELSE {})

\* mutt_window_reflow of the flat build that forgets the message line when it
\* sizes the index
mutt_window_reflow_flat_tall(Wf) ==
  IF OptNoCurses THEN Ok(Wf)
  ELSE IF NULL \in FlatUsed THEN Died(Wf)
  ELSE LET B == FlatBars(Wf)
       IN  [Ok(FlatIndex(B, Max(LINES - B[MuttStatusWindow].state.rows
                                      - B[MuttHelpWindow].state.rows, 0)))
              EXCEPT !.redraw = [full |-> 1, flow |-> 1]]

\* mutt_window_reflow of the flat build without the MAX(..., 0) of the index
mutt_window_reflow_flat_unclamped(Wf) ==
  IF OptNoCurses THEN Ok(Wf)
  ELSE IF NULL \in FlatUsed THEN Died(Wf)
  ELSE LET B == FlatBars(Wf)
       IN  [Ok(FlatIndex(B, LINES - B[MuttStatusWindow].state.rows
                                  - B[MuttHelpWindow].state.rows
                                  - B[MuttMessageWindow].state.rows))
              EXCEPT !.redraw = [full |-> 1, flow |-> 1]]

(* mutt_window_reflow of the flat build *)
mutt_window_reflow_flat(Wf) ==
  IF OptNoCurses THEN Ok(Wf)
  ELSE IF NULL \in FlatUsed THEN Died(Wf)
  ELSE LET B == FlatBars(Wf)
       IN  [Ok(FlatIndex(B, Max(LINES - B[MuttStatusWindow].state.rows
                                      - B[MuttHelpWindow].state.rows
                                      - B[MuttMessageWindow].state.rows, 0)))
              EXCEPT !.redraw = [full |-> 1, flow |-> 1]]

FlatReflow ==
  /\ build = "flat" /\ ~fault
  /\ last' = [op |-> "mutt_window_reflow", win |-> NULL]
  /\ Returns(mutt_window_reflow_flat(W))

(* mutt_window_reflow_message_rows(mw_rows) of the flat build *)
mutt_window_reflow_message_rows_flat(Wf, mw_rows) ==
  IF NULL \in FlatUsed THEN Died(Wf)
  ELSE LET W1 == [Wf EXCEPT
                   ![MuttMessageWindow].state.rows = mw_rows,
                   ![MuttMessageWindow].state.row_offset = LINES - mw_rows,
                   ![MuttStatusWindow].state.row_offset =
                       IF C_StatusOnTop THEN 0 ELSE LINES - mw_rows - 1]
           W2 == IF C_Help
                 THEN [W1 EXCEPT ![MuttHelpWindow].state.row_offset =
                                     IF C_StatusOnTop THEN LINES - mw_rows - 1 ELSE 0]
                 ELSE W1
           W3 == [W2 EXCEPT
                   ![MuttIndexWindow].state.rows =
                       Max(LINES - W2[MuttStatusWindow].state.rows
                                 - W2[MuttHelpWindow].state.rows
                                 - W2[MuttMessageWindow].state.rows, 0)]
           W4 == IF C_SidebarVisible
                 THEN [W3 EXCEPT ![MuttSidebarWindow].state.rows =
                                     W3[MuttIndexWindow].state.rows]
                 ELSE W3
       IN  [Ok(W4) EXCEPT !.redraw = [full |-> 1, flow |-> 0]]

FlatReflowMessageRows(mw_rows) ==
  /\ build = "flat" /\ ~fault
  /\ last' = [op |-> "mutt_window_reflow_message_rows", mw_rows |-> mw_rows]
  /\ Returns(mutt_window_reflow_message_rows_flat(W, mw_rows))

\* curses sets LINES and COLS when the terminal changes size
Resize(lines, cols) ==
  /\ build = "flat" /\ ~fault
  /\ LINES # lines \/ COLS # cols
  /\ LINES' = lines /\ COLS' = cols
  /\ last' = [op |-> "resize"]
  /\ redraw' = NoRedraw
  /\ UNCHANGED <<build, W, globals, config, sig, fault>>

(* --------------------------- the index dialog -------------------------- *)
\* mutt_window_reflow_prep expects MuttIndexWindow and MuttPagerWindow each in
\* a container of two (Index with Status, Pager with PagerBar). The index
\* dialog has the shape mutt_window_init of src/mutt_window.c gives w4: a
\* container w5 of Index and Status and a hidden container w6 of Pager and
\* PagerBar.
MaxIndexLines == 2    \* C_PagerIndexLines is 0..MaxIndexLines

\* w4, w5, w6, Index, Status, Pager, PagerBar
IndexShapes ==
  LET maxi == <<MUTT_WIN_ORIENT_VERTICAL, MUTT_WIN_SIZE_MAXIMISE,
                MUTT_WIN_SIZE_UNLIMITED, MUTT_WIN_SIZE_UNLIMITED>>
      bar == <<MUTT_WIN_ORIENT_VERTICAL, MUTT_WIN_SIZE_FIXED, 1, MUTT_WIN_SIZE_UNLIMITED>>
  IN  <<maxi, maxi, maxi, maxi, bar, maxi, bar>>

IndexLinks == << <<1, 2>>, <<2, 4>>, <<2, 5>>, <<1, 3>>, <<3, 6>>, <<3, 7>> >>

RECURSIVE AllocNew(_, _, _)
AllocNew(Wf, shapes, hs) ==
  IF shapes = <<>> THEN [W |-> Wf, hs |-> hs]
  ELSE LET h == Fresh(Wf)
           sh == Head(shapes)
       IN  AllocNew((h :> mutt_window_new(sh[1], sh[2], sh[3], sh[4])) @@ Wf,
                    Tail(shapes), Append(hs, h))

\* the index dialog is created and pushed; its pager container starts hidden
IndexDialog ==
  /\ build = "tree" /\ ~fault
  /\ MuttDialogWindow \in Live /\ MuttIndexWindow = NULL
  /\ LET A == AllocNew(W, IndexShapes, <<>>)
         W1 == [LinkAll(A.W, A.hs, IndexLinks) EXCEPT ![A.hs[3]].state.visible = FALSE]
     IN  /\ \E R \in dialog_push(W1, MuttDialogWindow, TRUE, A.hs[1]) :
              W' = R.W /\ fault' = R.fault
         /\ MuttIndexWindow' = A.hs[4]
         /\ MuttStatusWindow' = A.hs[5]
         /\ MuttPagerWindow' = A.hs[6]
         /\ MuttPagerBarWindow' = A.hs[7]
         /\ last' = [op |-> "index dialog", root |-> A.hs[1]]
  /\ redraw' = NoRedraw
  /\ UNCHANGED <<build, RootWindow, MuttDialogWindow, MuttHelpWindow,
                 MuttMessageWindow, MuttSidebarWindow, config, term>>

\* the pager is opened or closed: its container is shown or hidden
ShowPager(b) ==
  /\ build = "tree" /\ ~fault
  /\ MuttPagerWindow \in Live
  /\ W[MuttPagerWindow].parent \in Live
  /\ W[W[MuttPagerWindow].parent].state.visible # b
  /\ W' = [W EXCEPT ![W[MuttPagerWindow].parent].state.visible = b]
  /\ last' = [op |-> "show pager", on |-> b]
  /\ redraw' = NoRedraw
  /\ UNCHANGED <<build, globals, config, term, fault>>

SetPagerIndexLines(n) ==
  /\ build = "tree" /\ ~fault /\ C_PagerIndexLines # n /\ C_PagerIndexLines' = n
  /\ last' = [op |-> "set C_PagerIndexLines"]
  /\ redraw' = NoRedraw
  /\ UNCHANGED <<build, W, globals, C_Help, C_StatusOnTop, OptNoCurses,
                 C_SidebarVisible, C_SidebarWidth, C_SidebarOnRight, term, fault>>

\* a pane that takes what its children need
MinimiseShape == <<MUTT_WIN_ORIENT_VERTICAL, MUTT_WIN_SIZE_MINIMISE,
                   MUTT_WIN_SIZE_UNLIMITED, MUTT_WIN_SIZE_UNLIMITED>>

(* ------------------------------ wrap width ------------------------------ *)

MaxWidth == 4    \* widths are 0..MaxWidth
MaxWrap == 5     \* wrap settings are -MaxWrap..MaxWrap

\* mutt_window_wrap_cols that always takes the margin off
mutt_window_wrap_cols_margin(width, wrap) ==
  IF wrap < 0 THEN width + wrap
  ELSE IF wrap # 0 THEN (IF wrap < width THEN wrap ELSE width)
  ELSE width

(* mutt_window_wrap_cols(width, wrap): wrap is a short and is promoted to int,
   so -wrap and width + wrap do not overflow *)
mutt_window_wrap_cols(width, wrap) ==
  IF wrap < 0 THEN (IF width > -wrap THEN width + wrap ELSE width)
  ELSE IF wrap # 0 THEN (IF wrap < width THEN wrap ELSE width)
  ELSE width

Widths == 0..MaxWidth
Wraps == (-MaxWrap)..MaxWrap

\* a caller asks for the wrap column of a pane that is `width` columns wide
WrapCols(width, wrap) ==
  /\ ~fault
  /\ last' = [op |-> "mutt_window_wrap_cols", width |-> width, wrap |-> wrap,
              result |-> mutt_window_wrap_cols(width, wrap)]
  /\ redraw' = NoRedraw
  /\ UNCHANGED <<build, W, globals, config, term, fault>>

\* quote_width of rfc3676.c: the width is that of the Index window
QuoteWidth(C_ReflowWrap) ==
  /\ MuttIndexWindow \in Live
  /\ WrapCols(W[MuttIndexWindow].state.cols, C_ReflowWrap)

(* ------------------------------- signals -------------------------------- *)

MaxErrno == 1    \* errno is 0..MaxErrno

Signals == {"SIGTSTP", "SIGCONT", "SIGWINCH", "SIGINT", "other"}

\* curses_signal_handler that returns without restoring errno
curses_signal_handler_errno(s, signo, ended, err) ==
  LET tstp == [s EXCEPT !.IsEndwin = ended, !.errno = err]
      cont(t) == [t EXCEPT !.errno = err, !.SigWinch = 1]
  IN  IF signo = "SIGTSTP" THEN (IF ~s.C_Suspend THEN s ELSE cont(tstp))
      ELSE IF signo = "SIGCONT" THEN cont(s)
      ELSE IF signo = "SIGWINCH" THEN [s EXCEPT !.SigWinch = 1]
      ELSE IF signo = "SIGINT" THEN [s EXCEPT !.SigInt = 1]
      ELSE s

(* curses_signal_handler(sig) on the flags s: `ended` is what isendwin()
   answers, `err` the errno the curses calls and kill() leave behind *)
curses_signal_handler(s, signo, ended, err) ==
  LET save_errno == s.errno
      \* case SIGTSTP up to the fallthrough
      tstp == [s EXCEPT !.IsEndwin = ended, !.errno = err]
      \* case SIGCONT
      cont(t) == [t EXCEPT !.errno = err, !.SigWinch = 1]
      after == IF signo = "SIGTSTP"
               THEN (IF ~s.C_Suspend THEN s ELSE cont(tstp))
               ELSE IF signo = "SIGCONT" THEN cont(s)
               ELSE IF signo = "SIGWINCH" THEN [s EXCEPT !.SigWinch = 1]
               ELSE IF signo = "SIGINT" THEN [s EXCEPT !.SigInt = 1]
               ELSE s
  IN  [after EXCEPT !.errno = save_errno]

\* a signal arrives, whatever the main thread has just done; the handler
\* runs even in a process that is about to die
Signal(signo) ==
  /\ \E ended \in 0..1, err \in 0..MaxErrno :
       sig' = curses_signal_handler(sig, signo, ended, err)
  /\ last' = [op |-> "signal", signo |-> signo]
  /\ UNCHANGED <<build, W, globals, config, LINES, COLS, redraw, fault>>

\* a library call of the main thread leaves errno behind
SetErrno(e) ==
  /\ ~fault /\ sig.errno # e
  /\ sig' = [sig EXCEPT !.errno = e]
  /\ last' = [op |-> "set errno"]
  /\ UNCHANGED <<build, W, globals, config, LINES, COLS, redraw, fault>>

SetSuspend(b) ==
  /\ ~fault /\ sig.C_Suspend # b
  /\ sig' = [sig EXCEPT !.C_Suspend = b]
  /\ last' = [op |-> "set C_Suspend"]
  /\ UNCHANGED <<build, W, globals, config, LINES, COLS, redraw, fault>>

\* the main thread finds SigWinch set, clears it and passes the terminal's
\* size to mutt_window_set_root
HandleResize(rows, cols) ==
  /\ build = "tree" /\ ~fault
  /\ sig.SigWinch = 1
  /\ sig' = [sig EXCEPT !.SigWinch = 0]
  /\ last' = [op |-> "mutt_window_set_root", rows |-> rows, cols |-> cols,
              resized |-> /\ RootWindow \in Live
                          /\ \/ W[RootWindow].state.rows # rows
                             \/ W[RootWindow].state.cols # cols]
  /\ LET R == mutt_window_set_root(W, rows, cols)
     IN  W' = R.W /\ fault' = R.fault /\ redraw' = R.redraw
  /\ UNCHANGED <<build, globals, config, LINES, COLS>>

(* ------------------------- the specifications -------------------------- *)
\* the dialog stack: the default windows, the callers' dialogs, push and pop
NextDialog ==
  \/ WindowInit
  \/ NewWindow(DialogShape)
  \/ \E p \in Floating \cup {NULL}, c \in Floating \cup {NULL} : AddChild(p, c)
  \/ \E hd \in BOOLEAN, r \in DialogRoots : DialogPush(hd, r)
  \/ DialogPop

SpecDialog == Init /\ [][NextDialog]_vars

\* the windows as a tree: creation, linking and release
NextWindow ==
  \/ NewWindow(DialogShape)
  \/ \E p \in Live \cup {NULL}, c \in Floating \cup {NULL} : AddChild(p, c)
  \/ \E hp \in BOOLEAN, w \in Floating \cup {NULL} : FreeWindow(hp, w)

SpecWindow == Init /\ [][NextWindow]_vars

\* the operations are called with absent panes, before and after
\* mutt_window_init, while callers push and pop dialogs
NextAbsent ==
  \/ WindowInit
  \/ NewWindow(DialogShape)
  \/ \E hd \in BOOLEAN, r \in DialogRoots : DialogPush(hd, r)
  \/ DialogPop
  \/ \E p \in {NULL, MuttDialogWindow}, c \in {NULL, MuttDialogWindow} :
       (p = NULL \/ c = NULL) /\ AddChild(p, c)
  \/ \E hp \in BOOLEAN : FreeWindow(hp, NULL)
  \/ \E a \in {NULL, MuttHelpWindow}, b \in {NULL, MuttMessageWindow} :
       (a = NULL \/ b = NULL) /\ CopySize(a, b)
  \/ \E r \in TermRows, c \in TermCols : RootWindow = NULL /\ SetRoot(r, c)
  \/ Reflow(NULL)
  \/ \E n \in 0..MaxMsgRows : MuttMessageWindow = NULL /\ ReflowMessageRows(n)
  \/ Move(NULL)

SpecAbsent == Init /\ [][NextAbsent]_vars

\* the terminal is resized, with curses on or off
NextResize ==
  \/ WindowInit
  \/ \E r \in TermRows, c \in TermCols : SetRoot(r, c)
  \/ \E win \in {NULL, RootWindow, MuttDialogWindow} : Reflow(win)
  \/ \E b \in BOOLEAN : SetNoCurses(b)

SpecResize == Init /\ [][NextResize]_vars

\* the flat build lays out its standard windows as the terminal changes
NextFlat ==
  \/ FlatInit
  \/ FlatReflow
  \/ \E l \in TermRows, c \in TermCols : Resize(l, c)

\* the flat build also makes room for multi-line messages
NextMessage ==
  \/ NextFlat
  \/ \E n \in 0..MaxMsgRows : FlatReflowMessageRows(n)

SpecMessage == Init /\ [][NextMessage]_vars

\* the configuration changes between reflows, on a terminal of full width
\* that has room for the one-row windows
RoomyRows == (MaxLines - 1)..MaxLines

NextConfig ==
  \/ WindowInit
  \/ \E r \in RoomyRows : SetRoot(r, MaxCols)
  \/ \E win \in {NULL, RootWindow} : Reflow(win)
  \/ \E b \in BOOLEAN : SetHelp(b)
  \/ \E b \in BOOLEAN : SetStatusOnTop(b)

SpecConfig == Init /\ [][NextConfig]_vars

\* callers put further Maximise panes next to the dialog container
NextShare ==
  \/ NextFlat
  \/ WindowInit
  \/ NewWindow(DialogShape)
  \/ \E c \in Floating : RootWindow # NULL /\ AddChild(RootWindow, c)
  \/ \E r \in RoomyRows : SetRoot(r, MaxCols)
  \/ Reflow(NULL)

SpecShare == Init /\ [][NextShare]_vars

\* the index dialog with its pager and one empty Minimise pane of a caller,
\* on a terminal that is too small and on one that is roomy
TwoHeights == {1, MaxLines}

NextPager ==
  \/ WindowInit
  \/ Extra = {} /\ NewWindow(MinimiseShape)
  \/ \E c \in Floating : RootWindow # NULL /\ MuttIndexWindow = NULL /\ AddChild(RootWindow, c)
  \/ IndexDialog
  \/ \E b \in BOOLEAN : ShowPager(b)
  \/ \E n \in 0..MaxIndexLines : SetPagerIndexLines(n)
  \/ \E r \in TwoHeights : SetRoot(r, MaxCols)
  \/ Reflow(NULL)

SpecPager == Init /\ [][NextPager]_vars

\* the help line is switched on and off between reflows, on terminals of
\* every height
NextHelp ==
  \/ NextFlat
  \/ WindowInit
  \/ \E r \in TermRows : SetRoot(r, MaxCols)
  \/ Reflow(NULL)
  \/ \E b \in BOOLEAN : SetHelp(b)

SpecHelp == Init /\ [][NextHelp]_vars

\* wrap columns are asked for, by quote_width for the Index window of the
\* flat build on a terminal of full height and by other callers for any width
NextWrap ==
  \/ FlatInit
  \/ FlatReflow
  \/ \E c \in TermCols : Resize(MaxLines, c)
  \/ \E wrap \in Wraps : QuoteWidth(wrap)
  \/ \E width \in Widths, wrap \in Wraps : WrapCols(width, wrap)

SpecWrap == Init /\ [][NextWrap]_vars

\* room is made for multi-line messages between reflows and changes of the
\* settings, with curses on or off
NextRows ==
  \/ WindowInit
  \/ \E r \in RoomyRows : SetRoot(r, MaxCols)
  \/ Reflow(NULL)
  \/ \E b \in BOOLEAN : SetHelp(b)
  \/ \E b \in BOOLEAN : SetNoCurses(b)
  \/ \E n \in 1..MaxMsgRows : ReflowMessageRows(n)
  \/ FlatInit
  \/ FlatReflow
  \/ \E c \in TermCols : Resize(MaxLines, c)
  \/ \E n \in 1..MaxMsgRows : FlatReflowMessageRows(n)

SpecRows == Init /\ [][NextRows]_vars

\* the status line moves between top and bottom while the index dialog is up
NextOrder ==
  \/ WindowInit
  \/ IndexDialog
  \/ \E b \in BOOLEAN : SetStatusOnTop(b)
  \/ \E r \in RoomyRows : SetRoot(r, MaxCols)
  \/ Reflow(NULL)

SpecOrder == Init /\ [][NextOrder]_vars

\* dialogs are pushed and popped before and after the windows are torn down
NextTeardown ==
  \/ WindowInit
  \/ NewWindow(DialogShape)
  \/ \E r \in Floating : DialogPush(TRUE, r)
  \/ DialogPop
  \/ mutt_window_free_all

SpecTeardown == Init /\ [][NextTeardown]_vars

\* signals arrive while the main thread builds the windows, opens and closes
\* the index dialog, reflows and answers earlier resize signals
NextSignal ==
  \/ WindowInit
  \/ IndexDialog
  \/ DialogPop
  \/ Reflow(NULL)
  \/ \E r \in RoomyRows : HandleResize(r, MaxCols)
  \/ \E signo \in Signals : Signal(signo)
  \/ \E e \in 0..MaxErrno : SetErrno(e)
  \/ \E b \in BOOLEAN : SetSuspend(b)

SpecSignal == Init /\ [][NextSignal]_vars

\* both builds lay out their windows
NextTiling ==
  \/ NextFlat
  \/ WindowInit
  \/ \E r \in TermRows, c \in TermCols : SetRoot(r, c)
  \/ \E win \in {NULL, RootWindow, MuttDialogWindow} : Reflow(win)

SpecTiling == Init /\ [][NextTiling]_vars

Next ==
  \/ NextDialog
  \/ NextWindow
  \/ NextResize
  \/ NextFlat
  \/ NextMessage
  \/ NextPager
  \/ NextHelp
  \/ NextWrap
  \/ NextRows
  \/ NextOrder
  \/ NextTeardown
  \/ NextSignal
  \/ mutt_window_free_all
  \/ \E b \in BOOLEAN : SetHelp(b)
  \/ \E b \in BOOLEAN : SetStatusOnTop(b)
  \/ \E n \in 0..MaxMsgRows : ReflowMessageRows(n)
  \/ \E a \in Live \cup {NULL}, b \in Live \cup {NULL} : CopySize(a, b)
  \/ \E w \in Live \cup {NULL} : Move(w)

Spec == Init /\ [][Next]_vars

(* ------------------------------ the claims ----------------------------- *)
Stack == IF MuttDialogWindow \in Live THEN W[MuttDialogWindow].children ELSE <<>>
Visible(w) == W[w].state.visible

\* C1: after any sequence of dialog_push calls (of dialogs that are not on the
\* stack) and dialog_pop calls, at most one child of the dialog container is
\* visible, and when the container is not empty that child is its last one.
C1_OneVisibleOnTop ==
  ~fault => \A i \in 1..Len(Stack) : Visible(Stack[i]) <=> (i = Len(Stack))

\* two dialogs were pushed and one was popped
C1_Witness ==
  /\ last.op = "dialog_pop" /\ last.popped # NULL
  /\ Len(Stack) = 1 /\ Visible(Stack[1])
  /\ ~Visible(last.popped)

\* C2: a pop removes exactly the most recently pushed dialog on the stack (a
\* push puts its dialog on top, a pop takes the top one off and shows the one
\* below it), so pops undo pushes in reverse order down to the empty container.
C2_Lifo ==
  [][ /\ (last'.op = "dialog_push" /\ last'.has_dlg /\ last'.root # NULL
             /\ MuttDialogWindow \in Live)
        => /\ Stack' = Append(Stack, last'.root)
           /\ W'[last'.root].state.visible
           /\ \A i \in 1..Len(Stack) : ~W'[Stack[i]].state.visible
      /\ (last'.op = "dialog_pop" /\ Stack # <<>>)
        => /\ last'.popped = Stack[Len(Stack)]
           /\ Stack' = SubSeq(Stack, 1, Len(Stack) - 1)
           /\ Len(Stack) > 1 => W'[Stack[Len(Stack) - 1]].state.visible
    ]_vars

\* push D1, push D2, pop, pop: the container is empty again and both are hidden
C2_Witness ==
  /\ last.op = "dialog_pop" /\ last.popped # NULL
  /\ MuttDialogWindow \in Live /\ Stack = <<>>
  /\ Cardinality({w \in Floating : ~Visible(w) /\ W[w].parent = NULL}) = 2

\* C3: dialog_pop only detaches: the popped root and its descendants stay
\* allocated with their child sequences unchanged, the popped root is hidden
\* and out of the container, and the caller holds it again (it can be pushed).
C3_PopDetaches ==
  [][ (last'.op = "dialog_pop" /\ Stack # <<>>)
        => LET d == Stack[Len(Stack)]
           IN  /\ Subtree(W, d) \subseteq DOMAIN W'
               /\ \A x \in Subtree(W, d) : W'[x].children = W[x].children
               /\ ~W'[d].state.visible
               /\ \A i \in 1..Len(Stack') : Stack'[i] # d
               /\ d \in Floating'
    ]_vars

\* a dialog with a child pane was popped
C3_Witness ==
  /\ last.op = "dialog_pop" /\ last.popped \in Live
  /\ W[last.popped].children # <<>>
  /\ last.popped \in Floating

\* C4: dialog_push with an absent dialog or an absent container, and dialog_pop
\* with an absent or empty container, leave every child sequence and every
\* visibility flag as they were.
C4_AbsentNoop ==
  [][ ( \/ last'.op = "dialog_push" /\ (~last'.has_dlg \/ MuttDialogWindow = NULL)
        \/ last'.op = "dialog_pop" /\ (MuttDialogWindow = NULL \/ Stack = <<>>) )
        => W' = W /\ ~fault'
    ]_vars

\* an absent dialog was pushed on a container that shows a dialog
C4_Witness ==
  /\ last.op = "dialog_push" /\ ~last.has_dlg /\ last.root # NULL
  /\ Len(Stack) = 1 /\ Visible(Stack[1])

\* the rectangles, visibility flags and previous rectangles of all panes
Geometry(Wf) == [w \in DOMAIN Wf |-> <<Wf[w].state, Wf[w].old>>]
Rects(Wf) == [w \in DOMAIN Wf |-> Wf[w].state]

\* the tree is laid out for the size its Root stores: laying it out again
\* moves no pane
LaidOut(Wf) == Rects(window_reflow(Wf, RootWindow)) = Rects(Wf)

\* C5: mutt_window_set_root with the rows and cols the Root already stores
\* changes no pane's geometry, previous geometry, visibility or child order
\* and marks no redraw.
C5_SameSizeNoReflow ==
  [][ (last'.op = "mutt_window_set_root" /\ RootWindow \in Live
         /\ W[RootWindow].state.rows = last'.rows
         /\ W[RootWindow].state.cols = last'.cols)
        => W' = W /\ redraw' = NoRedraw /\ ~fault'
    ]_vars

\* set_root was called again with the size of a laid-out, non-empty terminal
C5_Witness ==
  /\ last.op = "mutt_window_set_root" /\ ~last.resized
  /\ RootWindow \in Live /\ last.rows = MaxLines /\ last.cols > 0
  /\ W[MuttDialogWindow].state.rows > 0

\* C6 as stated: whenever set_root is given a size that differs from the
\* stored one, it stores the size and reflows the whole tree, so that the tree
\* is laid out for the stored size.
C6_ResizeReflows ==
  [][ (last'.op = "mutt_window_set_root" /\ last'.resized)
        => /\ W'[RootWindow].state.rows = last'.rows
           /\ W'[RootWindow].state.cols = last'.cols
           /\ redraw' = [full |-> 1, flow |-> 1]
           /\ LaidOut(W')
    ]_vars

\* C6, amended: while curses is in use (OptNoCurses is off), set_root with a
\* size that differs from the stored one stores the size, reflows the whole
\* tree once and leaves it laid out for the stored size; with OptNoCurses on
\* it stores the size and does nothing else; with the stored size it marks no
\* redraw.
C6_ResizeReflowsWithCurses ==
  [][ /\ (last'.op = "mutt_window_set_root" /\ last'.resized /\ ~OptNoCurses)
        => /\ W'[RootWindow].state.rows = last'.rows
           /\ W'[RootWindow].state.cols = last'.cols
           /\ redraw' = [full |-> 1, flow |-> 1]
           /\ LaidOut(W')
      /\ (last'.op = "mutt_window_set_root" /\ last'.resized /\ OptNoCurses)
        => /\ W' = [W EXCEPT ![RootWindow].state.rows = last'.rows,
                             ![RootWindow].state.cols = last'.cols]
           /\ redraw' = NoRedraw
      /\ (last'.op = "mutt_window_set_root" /\ ~last'.resized)
        => redraw' = NoRedraw
    ]_vars

\* the terminal grew to its full size and the dialog container got the rows
\* between the help line and the message line
C6_Witness ==
  /\ last.op = "mutt_window_set_root" /\ last.resized /\ ~OptNoCurses
  /\ last.rows = MaxLines /\ last.cols = MaxCols
  /\ redraw.full = 1
  /\ W[MuttDialogWindow].state.rows = MaxLines - 2
  /\ W[MuttMessageWindow].state.row_offset = MaxLines - 1

\* C7: mutt_window_add_child with both panes present appends child to
\* parent's children, keeps the earlier children in order and sets child's
\* parent; with an absent pane it changes nothing; it never changes geometry.
C7_AddChildAppends ==
  [][ last'.op = "mutt_window_add_child"
        => LET p == last'.parent
               c == last'.child
           IN  /\ (p # NULL /\ c # NULL)
                 => /\ W'[p].children = Append(W[p].children, c)
                    /\ W'[c].parent = p
                    /\ \A x \in Live \ {p} : W'[x].children = W[x].children
                    /\ \A x \in Live \ {c} : W'[x].parent = W[x].parent
               /\ (p = NULL \/ c = NULL) => W' = W
               /\ DOMAIN W' = DOMAIN W
               /\ Geometry(W') = Geometry(W)
               /\ redraw' = NoRedraw /\ ~fault'
    ]_vars

\* a pane got its second child
C7_Witness ==
  /\ last.op = "mutt_window_add_child"
  /\ last.parent \in Live /\ last.child \in Live
  /\ Len(W[last.parent].children) = 2
  /\ W[last.parent].children[2] = last.child
  /\ W[last.child].parent = last.parent

Released(freed) == {freed[i].win : i \in 1..Len(freed)}

\* C8: mutt_window_free on a present pane releases the pane and each of its
\* descendants exactly once, each with an empty child sequence, and sets the
\* caller's handle to NULL; on a null handle or a null pane it does nothing.
C8_FreeReleasesSubtree ==
  [][ last'.op = "mutt_window_free"
        => IF last'.has_ptr /\ last'.win # NULL
           THEN /\ Released(last'.freed) = Subtree(W, last'.win)
                /\ Len(last'.freed) = Cardinality(Subtree(W, last'.win))
                /\ \A i \in 1..Len(last'.freed) : last'.freed[i].children = <<>>
                /\ DOMAIN W' = DOMAIN W \ Subtree(W, last'.win)
                /\ \A x \in DOMAIN W' : W'[x] = W[x]
                /\ last'.ptr = NULL
           ELSE W' = W /\ last'.freed = <<>> /\ last'.ptr = last'.win
    ]_vars

\* a pane with a child and a grandchild was freed
C8_Witness ==
  /\ last.op = "mutt_window_free" /\ last.has_ptr /\ last.win # NULL
  /\ Len(last.freed) = 3
  /\ last.freed[3].win = last.win
  /\ Live = {}

\* C9 as stated: an operation that is given an absent pane, a dialog without
\* a root pane, or that runs before mutt_window_init created the panes it
\* uses, returns without dereferencing the absent pane (the process lives on)
\* and changes nothing.
C9_AbsentIsNoop ==
  [][ ( \/ last'.op = "mutt_window_add_child"
             /\ (last'.parent = NULL \/ last'.child = NULL)
        \/ last'.op = "mutt_window_free" /\ (~last'.has_ptr \/ last'.win = NULL)
        \/ last'.op = "mutt_window_copy_size"
             /\ (last'.src = NULL \/ last'.dst = NULL)
        \/ last'.op = "mutt_window_set_root" /\ RootWindow = NULL
        \/ last'.op = "mutt_window_reflow" /\ MuttHelpWindow = NULL
        \/ last'.op = "mutt_window_reflow_message_rows" /\ MuttMessageWindow = NULL
        \/ last'.op = "mutt_window_move" /\ last'.win = NULL
        \/ last'.op = "dialog_push"
             /\ (~last'.has_dlg \/ last'.root = NULL \/ MuttDialogWindow = NULL)
        \/ last'.op = "dialog_pop" /\ MuttDialogWindow = NULL )
        => W' = W /\ redraw' = NoRedraw /\ ~fault'
    ]_vars

\* a reflow ran to its end in the last step
Reflowed == last.op = "mutt_window_reflow" /\ redraw.full = 1 /\ ~fault

\* the half-open intervals [a, a + m) and [b, b + n) share a cell
Overlap(a, m, b, n) == m > 0 /\ n > 0 /\ a < b + n /\ b < a + m

\* flat build: Help, Status, Index and Message share the terminal's rows
FlatRowsTile ==
  LET P == {MuttHelpWindow, MuttStatusWindow, MuttIndexWindow, MuttMessageWindow}
  IN  /\ W[MuttHelpWindow].state.rows + W[MuttStatusWindow].state.rows
           + W[MuttIndexWindow].state.rows + W[MuttMessageWindow].state.rows = LINES
      /\ \A x \in P, y \in P :
           x # y =>
           ~Overlap(W[x].state.row_offset, W[x].state.rows,
                    W[y].state.row_offset, W[y].state.rows)

\* flat build: Sidebar and Index share the terminal's columns
FlatColsTile ==
  C_SidebarVisible
    => /\ W[MuttSidebarWindow].state.cols + W[MuttIndexWindow].state.cols = COLS
       /\ ~Overlap(W[MuttSidebarWindow].state.col_offset, W[MuttSidebarWindow].state.cols,
                   W[MuttIndexWindow].state.col_offset, W[MuttIndexWindow].state.cols)

\* tree build: the extent and the offset of pane c along the axis of its parent
Extent(c, vert) == IF vert THEN W[c].state.rows ELSE W[c].state.cols
Offset(c, vert) == IF vert THEN W[c].state.row_offset ELSE W[c].state.col_offset

\* tree build: the visible children of p share p's extent
TreeTile(p) ==
  LET vis == VisibleKids(W, p)
      vert == Vertical(W, p)
  IN  /\ SumSeq([i \in 1..Len(vis) |-> Extent(vis[i], vert)]) = Extent(p, vert)
      /\ \A i \in 1..Len(vis), j \in 1..Len(vis) :
           i # j => ~Overlap(Offset(vis[i], vert), Extent(vis[i], vert),
                             Offset(vis[j], vert), Extent(vis[j], vert))

\* tree build: p has a visible Maximise child to take up the slack, and what
\* its other visible children need fits into p
Fits(p) ==
  LET vis == VisibleKids(W, p)
      vert == Vertical(W, p)
  IN  /\ \E i \in 1..Len(vis) : W[vis[i]].size = MUTT_WIN_SIZE_MAXIMISE
      /\ SumSeq([i \in 1..Len(vis) |-> Natural(W, vis[i], vert)]) <= Extent(p, vert)

\* C10 as stated: after a completed reflow the visible children of every pane
\* tile it, and in the flat build Help, Status, Index and Message tile the
\* rows and Sidebar and Index the columns, whatever the terminal size.
C10_Tiling ==
  Reflowed
    => IF build = "flat"
       THEN FlatRowsTile /\ FlatColsTile
       ELSE \A p \in Live : VisibleKids(W, p) # <<>> => TreeTile(p)

\* C10, amended: the rows tile when the terminal has a row for each of the
\* one-row windows (Status, Message, and Help when C_Help is set); in the tree
\* build a pane is tiled when it has a visible Maximise child and its other
\* visible children fit. The columns of Sidebar and Index always sum to COLS
\* and never overlap.
C10_TilingWhenItFits ==
  Reflowed
    => IF build = "flat"
       THEN /\ (LINES >= 2 + (IF C_Help THEN 1 ELSE 0)) => FlatRowsTile
            /\ FlatColsTile
       ELSE \A p \in Live : Fits(p) => TreeTile(p)

\* the flat build laid out a full-size terminal with the help line and a
\* sidebar of one column
C10_Witness ==
  /\ build = "flat" /\ Reflowed
  /\ LINES = MaxLines /\ COLS = MaxCols
  /\ C_Help /\ C_SidebarVisible /\ C_SidebarWidth = 1
  /\ W[MuttIndexWindow].state.rows = MaxLines - 3
  /\ W[MuttIndexWindow].state.cols = MaxCols - 1
  /\ W[MuttSidebarWindow].state.rows = MaxLines - 3

\* pane w lies inside the terminal
InTerminal(w) ==
  /\ W[w].state.row_offset >= 0 /\ W[w].state.col_offset >= 0
  /\ W[w].state.rows >= 0 /\ W[w].state.cols >= 0
  /\ W[w].state.row_offset + W[w].state.rows <= LINES
  /\ W[w].state.col_offset + W[w].state.cols <= COLS

\* C11 as stated: after mutt_window_reflow and after
\* mutt_window_reflow_message_rows(n) every window the flat build lays out has
\* offsets and extents >= 0 and ends inside LINES x COLS, whatever the terminal
\* size, the sidebar width and n.
C11_Contained ==
  (build = "flat" /\ ~fault /\ redraw.full = 1
     /\ last.op \in {"mutt_window_reflow", "mutt_window_reflow_message_rows"})
    => \A w \in FlatUsed : InTerminal(w)

\* what a reflow decides: child order, visibility, geometry and size policy
Layout(Wf) == [w \in DOMAIN Wf |-> <<Wf[w].children, Wf[w].state, Wf[w].size>>]

\* C12 as stated: a second mutt_window_reflow right after a first one (same
\* window, nothing changed in between) leaves child order, visibility, size
\* policy and geometry of every pane as the first call left them.
C12_Idempotent ==
  [][ (last.op = "mutt_window_reflow" /\ last'.op = "mutt_window_reflow"
         /\ last'.win = last.win)
        => ~fault' /\ Layout(W') = Layout(W)
    ]_vars

\* the last step laid out the tree from the Root down
FullReflow ==
  /\ build = "tree" /\ ~fault /\ redraw.full = 1
  /\ \/ last.op = "mutt_window_set_root"
     \/ last.op = "mutt_window_reflow" /\ last.win \in {NULL, RootWindow}

\* the panes a reflow from p reaches: p and, below it, visible panes only
RECURSIVE Shown(_, _)
Shown(Wf, p) ==
  {p} \cup UNION {Shown(Wf, Wf[p].children[i]) :
                    i \in {j \in 1..Len(Wf[p].children) :
                             Wf[Wf[p].children[j]].state.visible}}

\* the Maximise children of p share what p's other visible children leave
MaxShare(p) ==
  LET vis == VisibleKids(W, p)
      vert == Vertical(W, p)
      IsMax(i) == W[vis[i]].size = MUTT_WIN_SIZE_MAXIMISE
      others == SumSeq([i \in 1..Len(vis) |->
                          IF IsMax(i) THEN 0 ELSE Extent(vis[i], vert)])
      R == Max(Extent(p, vert) - others, 0)
      k == Cardinality({i \in 1..Len(vis) : IsMax(i)})
      rank(i) == Cardinality({j \in 1..(i - 1) : IsMax(j)})
  IN  \A i \in 1..Len(vis) :
        IsMax(i) => Extent(vis[i], vert)
                      = (R \div k) + (IF rank(i) < R % k THEN 1 ELSE 0)

\* C13: after a reflow the k Maximise children of a pane have floor(R/k) each,
\* plus one for the first R mod k of them, where R is what the pane's other
\* visible children leave, or 0 when they leave nothing; in the flat build the
\* Index gets the rows Status, Help and Message leave, or 0.
C13_MaximiseShare ==
  /\ FullReflow => \A p \in Shown(W, RootWindow) : MaxShare(p)
  /\ (build = "flat" /\ Reflowed)
       => W[MuttIndexWindow].state.rows
            = Max(LINES - W[MuttStatusWindow].state.rows
                        - W[MuttHelpWindow].state.rows
                        - W[MuttMessageWindow].state.rows, 0)

\* the Root has 3 rows, Help and Message take two, and the dialog container
\* and a second Maximise pane share the odd one: 1 and 0
C13_Witness ==
  /\ FullReflow
  /\ Len(W[RootWindow].children) = 4
  /\ W[RootWindow].state.rows = 3
  /\ W[MuttDialogWindow].state.rows = 1
  /\ W[W[RootWindow].children[4]].state.rows = 0
  /\ W[W[RootWindow].children[4]].size = MUTT_WIN_SIZE_MAXIMISE

\* a Minimise pane stacked along its parent's axis is as long as its visible
\* children together
MinimiseSum(p) ==
  LET vert == Vertical(W, p)
      vis == VisibleKids(W, p)
  IN  (W[p].parent \in Live /\ Vertical(W, W[p].parent) = vert)
        => Extent(p, vert) = SumSeq([i \in 1..Len(vis) |-> Extent(vis[i], vert)])

\* C14: after a reflow the extent of every Minimise pane is the sum of the
\* extents of its visible children, whatever its parent has to offer, and 0
\* when it has no visible child; this holds for the Index container that the
\* open pager turns into a Minimise pane around an Index of C_PagerIndexLines
\* rows.
C14_MinimiseSum ==
  FullReflow => \A p \in Shown(W, RootWindow) :
                  W[p].size = MUTT_WIN_SIZE_MINIMISE => MinimiseSum(p)

\* the pager is open over a Root of one row: the Index container has the rows
\* of the Index and the Status bar though its parent has none, and a Minimise
\* pane without children has none
C14_Witness ==
  /\ FullReflow
  /\ MuttIndexWindow \in Live /\ MuttPagerWindow \in Live
  /\ W[W[MuttPagerWindow].parent].state.visible
  /\ C_PagerIndexLines = MaxIndexLines
  /\ LET ip == W[MuttIndexWindow].parent
     IN  /\ ip \in Shown(W, RootWindow)
         /\ W[ip].size = MUTT_WIN_SIZE_MINIMISE
         /\ W[MuttIndexWindow].state.rows = MaxIndexLines
         /\ W[ip].state.rows = MaxIndexLines + 1
         /\ W[W[ip].parent].state.rows = 0
  /\ Len(W[RootWindow].children) = 4
  /\ LET leaf == W[RootWindow].children[4]
     IN  /\ W[leaf].size = MUTT_WIN_SIZE_MINIMISE
         /\ W[leaf].children = <<>>
         /\ W[leaf].state.rows = 0

\* tree build: the step is a reflow of a tree that was laid out with the help
\* line in the opposite state and the status line at the bottom
HelpToggled(was) ==
  /\ build = "tree" /\ RootWindow \in Live /\ ~OptNoCurses /\ ~C_StatusOnTop
  /\ C_Help # was /\ W[MuttHelpWindow].state.visible = was
  /\ LaidOut(W)
  /\ last'.op = "mutt_window_reflow" /\ last'.win \in {NULL, RootWindow}

\* tree build: the help line goes; `fit` asks that the tree with the help
\* line fitted its Root
TreeHelpOff(fit) ==
  (HelpToggled(TRUE) /\ (fit => Fits(RootWindow)))
    => /\ ~fault'
       /\ ~W'[MuttHelpWindow].state.visible
       /\ W'[MuttDialogWindow].state.row_offset = W[MuttHelpWindow].state.row_offset
       /\ W'[MuttDialogWindow].state.rows = W[MuttDialogWindow].state.rows + 1
       /\ W'[MuttMessageWindow].state.row_offset
            = W'[MuttDialogWindow].state.row_offset + W'[MuttDialogWindow].state.rows

\* tree build: the help line comes back
TreeHelpOn ==
  HelpToggled(FALSE)
    => /\ ~fault'
       /\ W'[MuttHelpWindow].state.visible
       /\ W'[MuttHelpWindow].state.rows = 1
       /\ W'[MuttHelpWindow].state.row_offset = W[MuttDialogWindow].state.row_offset
       /\ W'[MuttDialogWindow].state.row_offset = W'[MuttHelpWindow].state.row_offset + 1

\* flat build: what a reflow gives Help and Index with and without the help
\* line; `fit` asks for a row for each of Status, Help and Message
FlatHelp(fit) ==
  (build = "flat" /\ last'.op = "mutt_window_reflow" /\ ~fault' /\ redraw'.full = 1)
    => LET bars == W'[MuttStatusWindow].state.rows + 1 + W'[MuttMessageWindow].state.rows
           withHelp == Max(LINES - bars, 0)
       IN  IF C_Help
           THEN /\ W'[MuttHelpWindow].state.rows = 1
                /\ W'[MuttIndexWindow].state.rows = withHelp
                /\ ~C_StatusOnTop => /\ W'[MuttHelpWindow].state.row_offset = 0
                                     /\ W'[MuttIndexWindow].state.row_offset = 1
           ELSE /\ W'[MuttHelpWindow].state.rows = 0
                /\ ~C_StatusOnTop => W'[MuttIndexWindow].state.row_offset = 0
                /\ (fit => LINES >= bars)
                     => W'[MuttIndexWindow].state.rows = withHelp + 1

Wrapped == last.op = "mutt_window_wrap_cols" /\ last.width >= 0

\* C16 as stated: mutt_window_wrap_cols(width, wrap) is width when wrap is 0,
\* the smaller of wrap and width when wrap is positive, and width - |wrap|
\* when wrap is negative, for every width >= 0.
C16_WrapCols ==
  Wrapped
    => last.result = IF last.wrap = 0 THEN last.width
                     ELSE IF last.wrap > 0 THEN Min(last.wrap, last.width)
                     ELSE last.width - (0 - last.wrap)

\* C16, amended: a negative wrap takes |wrap| columns off only when the width
\* is larger than |wrap|; otherwise the result is the full width.
C16_WrapColsMargin ==
  Wrapped
    => last.result = IF last.wrap = 0 THEN last.width
                     ELSE IF last.wrap > 0 THEN Min(last.wrap, last.width)
                     ELSE IF last.width + last.wrap > 0
                     THEN last.width - (0 - last.wrap)
                     ELSE last.width

\* a margin as wide as the pane was asked for and the full width came back
C16_Witness ==
  /\ Wrapped
  /\ last.width > 0 /\ last.wrap = 0 - last.width
  /\ last.result = last.width

\* what mutt_window_reflow_message_rows is to leave alone in every pane: the
\* children and their order, the visibility, the size policy and the columns
Frame(Wf) ==
  [w \in DOMAIN Wf |-> <<Wf[w].children, Wf[w].state.visible, Wf[w].size,
                          Wf[w].state.cols, Wf[w].state.col_offset>>]

\* C17: mutt_window_reflow_message_rows changes only row extents and row
\* offsets: no pane's columns, visibility, size policy or child order changes,
\* and no full reflow takes place (no geometry-changed redraw is marked).
C17_RowsOnly ==
  [][ (last'.op = "mutt_window_reflow_message_rows" /\ ~fault')
        => Frame(W') = Frame(W) /\ redraw'.flow = 0 ]_vars

\* C19: a mutt_window_reflow call that reflows marks the full redraw once and
\* the geometry-changed redraw once, a mutt_window_reflow_message_rows call
\* marks the full redraw once and nothing else, and a call that does not
\* reflow (mutt_window_set_root with the size the Root has, any of the three
\* while curses is off) marks no redraw.
C19_RedrawCounts ==
  [][ /\ (last'.op = "mutt_window_reflow" /\ ~fault')
           => redraw' = IF OptNoCurses THEN NoRedraw ELSE [full |-> 1, flow |-> 1]
      /\ (last'.op = "mutt_window_reflow_message_rows" /\ ~fault')
           => redraw' = IF OptNoCurses THEN NoRedraw ELSE [full |-> 1, flow |-> 0]
      /\ (last'.op = "mutt_window_set_root" /\ ~fault')
           => redraw' = IF last'.resized /\ ~OptNoCurses
                        THEN [full |-> 1, flow |-> 1] ELSE NoRedraw
    ]_vars

\* the tree as mutt_window_init leaves it: Help, the dialog container and
\* Message below the Root in that order, all visible, no dialog yet
InitialTree ==
  /\ RootWindow \in Live
  /\ W[RootWindow].parent = NULL
  /\ W[RootWindow].children = <<MuttHelpWindow, MuttDialogWindow, MuttMessageWindow>>
  /\ Cardinality({MuttHelpWindow, MuttDialogWindow, MuttMessageWindow}) = 3
  /\ W[MuttDialogWindow].children = <<>>
  /\ \A w \in {RootWindow, MuttHelpWindow, MuttDialogWindow, MuttMessageWindow} :
       W[w].state.visible

Others(kids, w) == SelectSeq(kids, LAMBDA c : c # w)

\* a step leaves w first among its parent's children exactly when
\* C_StatusOnTop is off, and its siblings in the order they had
PrepKept(w) ==
  LET p == W[w].parent
  IN  /\ W'[w].parent = p
      /\ (TAILQ_FIRST(W'[p].children) = w) <=> ~C_StatusOnTop
      /\ Others(W'[p].children, w) = Others(W[p].children, w)

\* C20: after every mutt_window_reflow_prep Help is the first child of its
\* parent exactly when C_StatusOnTop is off, the other children of that
\* parent are in the order they had, and Message is the last child of the
\* Root; the same holds for Index among Index and Status and for Pager among
\* Pager and PagerBar.
C20_PrepOrder ==
  [][ (build = "tree" /\ last'.op = "mutt_window_reflow" /\ ~OptNoCurses /\ ~fault')
        => /\ PrepKept(MuttHelpWindow)
           /\ W'[RootWindow].children[Len(W'[RootWindow].children)] = MuttMessageWindow
           /\ (MuttIndexWindow # NULL /\ MuttPagerWindow # NULL)
                => PrepKept(MuttIndexWindow) /\ PrepKept(MuttPagerWindow) ]_vars

\* the step is a completed full reflow that directly follows a
\* mutt_window_reflow_message_rows(n) with n > 1
ReflowAfterMessage ==
  /\ last.op = "mutt_window_reflow_message_rows" /\ last.mw_rows > 1
  /\ \/ last'.op = "mutt_window_reflow"
     \/ last'.op = "mutt_window_set_root" /\ last'.resized
  /\ ~fault' /\ redraw'.flow = 1

\* C21: the full reflow that follows mutt_window_reflow_message_rows(n),
\* n > 1, without another message-rows call gives the Message pane one row
\* again, the last row of the screen, and the Index or dialog area the rows
\* above it.
C21_MessageRowsTransient ==
  [][ ReflowAfterMessage
        => /\ W'[MuttMessageWindow].state.rows = 1
           /\ IF build = "flat"
              THEN /\ W'[MuttMessageWindow].state.row_offset = LINES' - 1
                   /\ W'[MuttIndexWindow].state.rows
                        = Max(LINES' - W'[MuttStatusWindow].state.rows
                                     - W'[MuttHelpWindow].state.rows - 1, 0)
              ELSE W'[RootWindow].state.rows \in RoomyRows
                     => /\ W'[MuttMessageWindow].state.row_offset
                             = W'[RootWindow].state.rows - 1
                        /\ W'[MuttDialogWindow].state.rows
                             = W'[RootWindow].state.rows - 1
                                 - (IF C_Help THEN 1 ELSE 0) ]_vars

\* C22: mutt_window_reflow_message_rows never marks the geometry-changed
\* (REDRAW_FLOW) redraw; the full redraw is the only one it marks.
C22_MessageRowsNoFlow ==
  [][ (last'.op = "mutt_window_reflow_message_rows" /\ ~fault')
        => redraw'.flow = 0 /\ redraw'.full > 0 ]_vars

\* C23: while OptNoCurses is set mutt_window_reflow changes no pane (no child
\* order, visibility, size policy or geometry) and marks no redraw;
\* mutt_window_set_root then stores the new rows and cols in the Root and
\* changes nothing else, and a later mutt_window_set_root with the stored
\* size changes nothing and marks nothing, curses on or off.
C23_NoCursesNoop ==
  [][ /\ (last'.op = "mutt_window_reflow" /\ OptNoCurses)
           => W' = W /\ redraw' = NoRedraw /\ ~fault'
      /\ (last'.op = "mutt_window_set_root" /\ OptNoCurses /\ RootWindow \in Live)
           => /\ W' = [W EXCEPT ![RootWindow].state.rows = last'.rows,
                                ![RootWindow].state.cols = last'.cols]
              /\ redraw' = NoRedraw /\ ~fault'
      /\ (last'.op = "mutt_window_set_root" /\ RootWindow \in Live /\ ~last'.resized)
           => W' = W /\ redraw' = NoRedraw /\ ~fault'
    ]_vars

\* with curses off and the help line switched off but still shown, the Root
\* was given a new size and the tree below it was not laid out for it
C23_Witness ==
  /\ build = "tree" /\ OptNoCurses /\ ~fault
  /\ last.op = "mutt_window_set_root" /\ last.resized
  /\ redraw = NoRedraw
  /\ W[RootWindow].state.rows = last.rows
  /\ ~C_Help /\ W[MuttHelpWindow].state.visible
  /\ W[MuttDialogWindow].state.rows > 0
  /\ ~LaidOut(W)

\* the global pane handles
Handles ==
  {RootWindow, MuttHelpWindow, MuttIndexWindow, MuttMessageWindow,
   MuttPagerBarWindow, MuttPagerWindow, MuttSidebarWindow, MuttStatusWindow,
   MuttDialogWindow}

\* C24: mutt_window_free_all leaves every global pane handle absent and
\* releases the Root tree with the dialogs on the stack, but no pane outside
\* it; a dialog_push or dialog_pop that follows changes nothing, and a
\* mutt_window_init that follows builds a new tree.
C24_TeardownClearsHandles ==
  [][ /\ last'.op = "mutt_window_free_all"
           => /\ Handles' = {NULL}
              /\ Live' = IF RootWindow \in Live
                         THEN Live \ Subtree(W, RootWindow) ELSE Live
      /\ (last.op = "mutt_window_free_all"
            /\ last'.op \in {"dialog_push", "dialog_pop"})
           => W' = W /\ ~fault'
      /\ (last.op = "mutt_window_free_all" /\ last'.op = "mutt_window_init")
           => ~last'.had_root /\ InitialTree'
    ]_vars

\* C25: every pane in the child sequence of a pane P has P as its parent, a
\* pushed dialog's root the dialog container, and no pane is in two child
\* sequences or twice in one.
C25_ParentChild ==
  ~fault =>
    /\ \A p \in Live : \A i \in 1..Len(W[p].children) :
         LET c == W[p].children[i]
         IN  /\ c \in Live => W[c].parent = p
             /\ \A j \in 1..Len(W[p].children) : W[p].children[j] = c => j = i
    /\ \A p \in Live, q \in Live :
         p # q => Range(W[p].children) \cap Range(W[q].children) = {}

\* C26: curses_signal_handler touches no pane, child sequence or geometry,
\* whatever the signal and whatever the main thread has just done; it sets
\* SigWinch to 1 on SIGWINCH, on SIGCONT and on a SIGTSTP that C_Suspend
\* allows, SigInt to 1 on SIGINT, clears neither flag, sets no flag on a
\* SIGTSTP with C_Suspend off, and leaves errno as it found it; SigWinch is
\* 0 or 1, so any number of resize signals leave one pending resize.
C26_HandlerOnlySetsFlags ==
  [][ last'.op = "signal"
        => /\ W' = W /\ globals' = globals /\ LINES' = LINES /\ COLS' = COLS
           /\ redraw' = redraw /\ fault' = fault
           /\ sig'.errno = sig.errno
           /\ sig'.C_Suspend = sig.C_Suspend
           /\ sig'.SigWinch
                = IF \/ last'.signo \in {"SIGWINCH", "SIGCONT"}
                     \/ last'.signo = "SIGTSTP" /\ sig.C_Suspend
                  THEN 1 ELSE sig.SigWinch
           /\ sig'.SigInt = IF last'.signo = "SIGINT" THEN 1 ELSE sig.SigInt
           /\ sig'.SigWinch \in {0, 1} ]_vars

\* a resize signal arrived while the index dialog was laid out on a full-size
\* terminal, an interrupt was pending and errno was set
C26_Witness ==
  /\ last.op = "signal" /\ last.signo = "SIGWINCH"
  /\ sig.SigWinch = 1 /\ sig.SigInt = 1
  /\ sig.errno = MaxErrno
  /\ MuttIndexWindow \in Live
  /\ W[RootWindow].state.rows = MaxLines
  /\ LaidOut(W)
====
